---- MODULE Spec2Model ----
(***************************************************************************)
(* Model of the Finley backend (src/app.py): the POST /ask endpoint, the   *)
(* outbound chat-completion call and the best-effort citation extraction   *)
(* of get_azure_openai_response.                                           *)
(*                                                                         *)
(* Python values are tagged records [t |-> <type>, v |-> <value>] so that  *)
(* a field can hold a list, None, or be missing from its dict.             *)
(***************************************************************************)
EXTENDS Integers, Sequences, FiniteSets, TLC

\* ------------------------------------------------------------------ bounds
\* Entries of context.messages plus entries of tool_calls in one response.
MaxEntries == 3
\* How many times the extraction is run on one and the same response object.
MaxRuns == 2

\* ------------------------------------------------------------ Python values
Absent == [t |-> "absent", v |-> <<>>]     \* the key is not in the dict
None == [t |-> "none", v |-> <<>>]         \* Python None
List(s) == [t |-> "list", v |-> s]         \* a Python list

NoStr == [t |-> "absent", v |-> ""]        \* a string-valued key that is missing
NoneStr == [t |-> "none", v |-> ""]        \* None where a string is expected
Str(s) == [t |-> "str", v |-> s]

\* A Python exception and str() of it: the single argument, or "" when the
\* exception was built without arguments.
Exc(type, args) == [type |-> type, args |-> args]
NoExc == Exc("", <<>>)
PyStr(ex) == IF Len(ex.args) = 1 THEN ex.args[1] ELSE ""

\* Sample citation lists (a citation is an opaque record, named by a string).
CitLists == {<<>>, <<"c1">>, <<"c2", "c3">>}
\* What a "citations" key can hold: a list, or something that is not a list.
CitVal == {List(s) : s \in CitLists} \cup {None}

\* Sample values of context.messages[i]["content"].
Contents ==
    { "not json", "{}", "5", "\"citations\"",
      "{\"citations\": [\"c2\", \"c3\"]}", "{\"citations\": null}" }

\* json.loads on the sample contents: ok = FALSE when it raises
\* JSONDecodeError, else the parsed value (a dict with or without a
\* "citations" key, an int, or a str).
JsonValue(t, c, s) == [t |-> t, citations |-> c, v |-> s]
JsonLoads(s) ==
    CASE s = "{}" -> [ok |-> TRUE, val |-> JsonValue("dict", Absent, "")]
      [] s = "5" -> [ok |-> TRUE, val |-> JsonValue("int", Absent, "")]
      [] s = "\"citations\"" ->
            [ok |-> TRUE, val |-> JsonValue("str", Absent, "citations")]
      [] s = "{\"citations\": [\"c2\", \"c3\"]}" ->
            [ok |-> TRUE, val |-> JsonValue("dict", List(<<"c2", "c3">>), "")]
      [] s = "{\"citations\": null}" ->
            [ok |-> TRUE, val |-> JsonValue("dict", None, "")]
      [] OTHER -> [ok |-> FALSE, val |-> JsonValue("none", Absent, "")]

\* ------------------------------------------------------- upstream responses
\* An entry of context.messages: a dict with optional "citations" and
\* "content" keys, or something that is not a container.
MsgDict(c, s) == [t |-> "dict", citations |-> c, content |-> s]
MsgInt == [t |-> "int", citations |-> Absent, content |-> NoStr]
MsgEntries ==
    {MsgInt, MsgDict(Absent, NoStr)}
      \cup {MsgDict(c, NoStr) : c \in CitVal}
      \cup {MsgDict(Absent, Str(s)) : s \in Contents}
      \cup {MsgDict(List(<<"c1">>), Str("{\"citations\": [\"c2\", \"c3\"]}"))}

\* An entry of tool_calls.
CallDict(c) == [t |-> "dict", citations |-> c]
CallInt == [t |-> "int", citations |-> Absent]
CallEntries == {CallInt, CallDict(Absent)} \cup {CallDict(c) : c \in CitVal}

SeqsOfLen(S, n) == [1..n -> S]

\* message.context: None (missing), a non-container, or a dict with optional
\* "citations" and "messages" keys.
ContextDict(c, m) == [t |-> "dict", citations |-> c, messages |-> m]
ContextNone == [t |-> "none", citations |-> Absent, messages |-> Absent]
ContextInt == [t |-> "int", citations |-> Absent, messages |-> Absent]
CitOpt == {Absent} \cup CitVal

\* The shapes of a context whose "messages" list, if it has one, has m
\* entries (the entries are filled in by WithMessages).
ContextShapes(m) ==
    IF m = 0
    THEN {ContextNone, ContextInt}
           \cup {ContextDict(c, x) : c \in CitOpt, x \in {Absent, None, List(<<>>)}}
    ELSE {ContextDict(c, List(<<>>)) : c \in CitOpt}
WithMessages(c, ms) ==
    IF c.messages.t = "list" THEN [c EXCEPT !.messages = List(ms)] ELSE c

\* The same for tool_calls: None, a non-container, or a list of k entries.
CallsShapes(k) ==
    IF k = 0 THEN {None, [t |-> "int", v |-> <<>>], List(<<>>)} ELSE {List(<<>>)}
WithCalls(tc, cs) == IF tc.t = "list" THEN List(cs) ELSE tc

\* The first choice's message.content: a string, or None.
Answers == {Str("Revenue was $4.2M."), NoneStr}

Message(a, c, tc) == [content |-> a, context |-> c, tool_calls |-> tc]

\* A completion response: its choices list (empty, or one choice's message).
Response(choices) == [choices |-> choices]
NoResponse == Response(<<>>)

\* The completion responses within the bounds, less the entries of their
\* lists: n choices (0 or 1), m entries in context.messages, k in tool_calls.
Shape(n, a, c, tc, m, k) ==
    [n |-> n, content |-> a, context |-> c, tool_calls |-> tc, m |-> m, k |-> k]
Shapes ==
    {Shape(0, NoneStr, ContextNone, None, 0, 0)}
      \cup UNION { UNION { { Shape(1, a, c, tc, m, k) :
                               a \in Answers, c \in ContextShapes(m), tc \in CallsShapes(k) }
                           : k \in 0..(MaxEntries - m) }
                   : m \in 0..MaxEntries }
\* The response of shape sh with entries ms and cs.
Fill(sh, ms, cs) ==
    IF sh.n = 0 THEN NoResponse
    ELSE Response(<<Message(sh.content, WithMessages(sh.context, ms),
                            WithCalls(sh.tool_calls, cs))>>)

\* ------------------------------------------------------ citation extraction
\* Python truthiness of `if context:` / `if tool_calls:`.
TruthyContext(c) ==
    \/ c.t = "int"
    \/ c.t = "dict" /\ (c.citations # Absent \/ c.messages # Absent)
TruthyCalls(tc) == tc.t = "int" \/ (tc.t = "list" /\ tc.v # <<>>)

\* The locals of the try block: `citations`, whether it is the very list
\* object stored at context["citations"] (alias), whether an exception is
\* propagating (raised), whether the context["messages"] loop was entered
\* (walked), and the message object the code reads (and can write through
\* the alias).
Locals(message) ==
    [citations |-> List(<<>>), alias |-> FALSE, raised |-> FALSE,
     walked |-> FALSE, message |-> message]

Raise(st) == [st EXCEPT !.raised = TRUE]

\* citations.extend(val): AttributeError when `citations` is not a list,
\* TypeError when val is not iterable; extends in place otherwise.
Extend(st, val) ==
    IF st.citations.t # "list" \/ val.t # "list"
    THEN Raise(st)
    ELSE LET new == List(st.citations.v \o val.v)
         IN  [st EXCEPT !.citations = new,
                        !.message.context.citations = IF st.alias THEN new ELSE @]

\* ParseContent without the inner try: a content that does not parse, or a
\* parsed value that cannot be searched or extended from, raises.
ParseContentUncaught(st, msg) ==
    LET r == JsonLoads(msg.content.v)
    IN  IF ~r.ok THEN Raise(st)
        ELSE IF r.val.t # "dict" THEN Raise(st)
        ELSE IF r.val.citations = Absent THEN st
        ELSE Extend(st, r.val.citations)

\* Lines 108-113: the inner try around json.loads; every exception in it
\* is swallowed and the entry contributes nothing.
ParseContent(st, msg) ==
    LET r == JsonLoads(msg.content.v)
    IN  IF ~r.ok THEN st
        ELSE IF r.val.t # "dict" THEN st
        ELSE IF r.val.citations = Absent THEN st
        ELSE LET e == Extend(st, r.val.citations)
             IN  IF e.raised THEN st ELSE e

\* Lines 105-113: one iteration of `for msg in context["messages"]`.
MsgStep(st, msg) ==
    IF msg.t # "dict" THEN Raise(st)
    ELSE IF msg.citations # Absent THEN Extend(st, msg.citations)
    ELSE IF msg.content # NoStr THEN ParseContent(st, msg)
    ELSE st

RECURSIVE WalkMessages(_, _)
WalkMessages(st, msgs) ==
    IF msgs = <<>> \/ st.raised THEN st
    ELSE WalkMessages(MsgStep(st, Head(msgs)), Tail(msgs))

\* FromContext with `if "messages" in context` for the `elif`: the messages
\* are walked after context["citations"] was taken too.
FromContextBoth(st) ==
    LET context == st.message.context
        taken == IF context.citations # Absent
                 THEN [st EXCEPT !.citations = context.citations,
                                 !.alias = (context.citations.t = "list")]
                 ELSE st
    IN  IF ~TruthyContext(context) THEN st
        ELSE IF context.t # "dict" THEN Raise(st)
        ELSE IF context.messages # Absent
        THEN IF context.messages.t # "list" THEN Raise(taken)
             ELSE WalkMessages([taken EXCEPT !.walked = TRUE], context.messages.v)
        ELSE taken

\* Lines 97-113.
FromContext(st) ==
    LET context == st.message.context
    IN  IF ~TruthyContext(context) THEN st
        ELSE IF context.t # "dict" THEN Raise(st)
        ELSE IF context.citations # Absent
        THEN [st EXCEPT !.citations = context.citations,
                        !.alias = (context.citations.t = "list")]
        ELSE IF context.messages # Absent
        THEN IF context.messages.t # "list" THEN Raise(st)
             ELSE WalkMessages([st EXCEPT !.walked = TRUE], context.messages.v)
        ELSE st

\* Lines 118-119: one iteration of `for call in tool_calls`.
CallStep(st, call) ==
    IF call.t # "dict" THEN Raise(st)
    ELSE IF call.citations # Absent THEN Extend(st, call.citations)
    ELSE st

RECURSIVE WalkCalls(_, _)
WalkCalls(st, calls) ==
    IF calls = <<>> \/ st.raised THEN st
    ELSE WalkCalls(CallStep(st, Head(calls)), Tail(calls))

\* FromToolCalls as a further `elif`: tool_calls are looked at only when
\* the context gave nothing to look at.
FromToolCallsElse(st) ==
    LET tool_calls == st.message.tool_calls
    IN  IF st.raised \/ TruthyContext(st.message.context) THEN st
        ELSE IF ~TruthyCalls(tool_calls) THEN st
        ELSE IF tool_calls.t # "list" THEN Raise(st)
        ELSE WalkCalls(st, tool_calls.v)

\* Lines 115-119.
FromToolCalls(st) ==
    LET tool_calls == st.message.tool_calls
    IN  IF st.raised \/ ~TruthyCalls(tool_calls) THEN st
        ELSE IF tool_calls.t # "list" THEN Raise(st)
        ELSE WalkCalls(st, tool_calls.v)

\* Lines 95-122: the try block and its handler.
ExtractCitations(message) ==
    LET st == FromToolCalls(FromContext(Locals(message)))
    IN  IF st.raised THEN [st EXCEPT !.citations = List(<<>>)] ELSE st

\* Lines 90-123 of get_azure_openai_response, from the completion response
\* on: exc is the exception that leaves the function (NoExc when it returns),
\* response is the response object afterwards.
Returned(answer, st, response) ==
    [exc |-> NoExc, answer |-> answer, citations |-> st.citations,
     raised |-> st.raised, walked |-> st.walked, response |-> response]
get_azure_openai_response(response, show_citations) ==
    IF response.choices = <<>>
    THEN [exc |-> Exc("IndexError", <<"list index out of range">>), answer |-> NoneStr,
          citations |-> List(<<>>), raised |-> FALSE, walked |-> FALSE,
          response |-> response]
    ELSE LET message == response.choices[1]
             st == IF show_citations THEN ExtractCitations(message)
                   ELSE Locals(message)
         IN  Returned(message.content, st, [choices |-> <<st.message>>])

\* ------------------------------------------------------------- the endpoint
\* What the outbound client.chat.completions.create call can raise.
UpstreamErrors ==
    { Exc("APIConnectionError", <<"Connection error.">>),
      Exc("APITimeoutError", <<"Request timed out.">>),
      Exc("Exception", <<>>) }

\* Request bodies: "question" a string, missing, or not a string.
Body(q) == [question |-> q]
Bodies ==
    { Body(Str("What was our Q3 revenue?")), Body(NoStr),
      Body([t |-> "int", v |-> ""]) }

\* AskRequest with `question: Optional[str] = None`.
AskRequestOptional(body) == body.question.t \in {"str", "absent"}

\* class AskRequest: question is a required str.
AskRequest(body) == body.question.t = "str"

\* class AskResponse: answer must be a str, citations a list.
AskResponse(answer, citations) == answer.t = "str" /\ citations.t = "list"

\* HTTP replies.
NoReply == [status |-> 0, answer |-> "", citations |-> <<>>, detail |-> ""]
Ok200(answer, citations) ==
    [status |-> 200, answer |-> answer.v, citations |-> citations.v, detail |-> ""]
HTTPException(status_code, detail) ==
    [status |-> status_code, answer |-> "", citations |-> <<>>, detail |-> detail]
Unprocessable == HTTPException(422, "Field required")

\* get_azure_openai_response, from line 90 on, when the outbound call raised
\* upstream (the exception passes through) or returned `response`.
NoRun ==
    [exc |-> NoExc, answer |-> NoneStr, citations |-> List(<<>>),
     raised |-> FALSE, walked |-> FALSE, response |-> NoResponse]
Propagate(ex, response) == [NoRun EXCEPT !.exc = ex, !.response = response]

\* The handler answering with a fixed detail instead of str(ex).
OnExceptionGeneric(ex) == HTTPException(500, "Internal Server Error")

\* Lines 130-131: the handler of ask_endpoint.
OnException(ex) == HTTPException(500, PyStr(ex))

\* Lines 127-131, given the result of get_azure_openai_response.
ask_endpoint(run) ==
    IF run.exc # NoExc THEN OnException(run.exc)
    ELSE IF ~AskResponse(run.answer, run.citations)
    THEN OnException(Exc("ValidationError", <<"validation error for AskResponse">>))
    ELSE Ok200(run.answer, run.citations)

\* ------------------------------------------------------------------- state
VARIABLES
    pc,        \* "idle": no request in progress; "calling": outbound call pending
    body,      \* the body of the request last received
    outcome,   \* how it ended: "none", "rejected", "returned", "raised"
    calls,     \* outbound calls issued for that request
    received,  \* the completion response as the upstream returned it
    last,      \* the last run of get_azure_openai_response (see Returned)
    reply,     \* the HTTP reply to that request
    runs,      \* runs of the extraction on one response object
    first      \* the citations the first of these runs returned

vars == <<pc, body, outcome, calls, received, last, reply, runs, first>>

Init ==
    /\ pc = "idle"
    /\ body = Body(NoStr)
    /\ outcome = "none"
    /\ calls = 0
    /\ received = NoResponse
    /\ last = NoRun
    /\ reply = NoReply
    /\ runs = 0
    /\ first = List(<<>>)

\* The framework validates the body against AskRequest before the handler
\* runs; an invalid body is answered 422 and the handler is not called.
Reject ==
    /\ pc = "idle"
    /\ \E b \in Bodies :
         /\ ~AskRequest(b)
         /\ body' = b
    /\ outcome' = "rejected"
    /\ calls' = 0
    /\ received' = NoResponse
    /\ last' = NoRun
    /\ reply' = Unprocessable
    /\ UNCHANGED <<pc, runs, first>>

\* Lines 126-88: the handler starts and issues the outbound call.
Accept ==
    /\ pc = "idle"
    /\ \E b \in Bodies :
         /\ AskRequest(b)
         /\ body' = b
    /\ pc' = "calling"
    /\ outcome' = "none"
    /\ calls' = 1
    /\ received' = NoResponse
    /\ last' = NoRun
    /\ reply' = NoReply
    /\ UNCHANGED <<runs, first>>

\* The outbound call returns a response; lines 90-129 run.
UpstreamReturn ==
    /\ pc = "calling"
    /\ \E sh \in Shapes :
         \E ms \in SeqsOfLen(MsgEntries, sh.m), cs \in SeqsOfLen(CallEntries, sh.k) :
           LET run == get_azure_openai_response(Fill(sh, ms, cs), TRUE)
           IN  /\ received' = Fill(sh, ms, cs)
               /\ last' = run
               /\ reply' = ask_endpoint(run)
    /\ pc' = "idle"
    /\ outcome' = "returned"
    /\ UNCHANGED <<body, calls, runs, first>>

\* UpstreamRaise with one retry of the outbound call before giving up.
UpstreamRaiseRetry ==
    /\ pc = "calling"
    /\ \/ /\ calls < 2
          /\ calls' = calls + 1
          /\ UNCHANGED <<pc, body, outcome, received, last, reply, runs, first>>
       \/ /\ calls >= 2
          /\ \E ex \in UpstreamErrors :
               /\ last' = Propagate(ex, NoResponse)
               /\ reply' = ask_endpoint(Propagate(ex, NoResponse))
          /\ pc' = "idle"
          /\ outcome' = "raised"
          /\ received' = NoResponse
          /\ UNCHANGED <<body, calls, runs, first>>

\* The outbound call raises; lines 130-131 run.
UpstreamRaise ==
    /\ pc = "calling"
    /\ \E ex \in UpstreamErrors :
         /\ last' = Propagate(ex, NoResponse)
         /\ reply' = ask_endpoint(Propagate(ex, NoResponse))
    /\ pc' = "idle"
    /\ outcome' = "raised"
    /\ received' = NoResponse
    /\ UNCHANGED <<body, calls, runs, first>>

Next == Reject \/ Accept \/ UpstreamReturn \/ UpstreamRaise

Spec == Init /\ [][Next]_vars

\* ---------------------------------------- the extraction as a function
\* One response object, handed to lines 90-123 again and again (a client
\* whose create() returns the same object every time).
InitExtract ==
    /\ pc = "idle"
    /\ body = Body(NoStr)
    /\ outcome = "none"
    /\ calls = 0
    /\ \E sh \in Shapes :
         \E ms \in SeqsOfLen(MsgEntries, sh.m), cs \in SeqsOfLen(CallEntries, sh.k) :
           /\ received = Fill(sh, ms, cs)
           /\ last = Propagate(NoExc, received)
    /\ reply = NoReply
    /\ runs = 0
    /\ first = List(<<>>)

ExtractAgain ==
    /\ runs < MaxRuns
    /\ LET run == get_azure_openai_response(last.response, TRUE)
       IN  /\ last' = run
           /\ first' = IF runs = 0 THEN run.citations ELSE first
    /\ runs' = runs + 1
    /\ UNCHANGED <<pc, body, outcome, calls, received, reply>>

NextExtract == ExtractAgain

SpecExtract == InitExtract /\ [][NextExtract]_vars

\* ------------------------------------------------ vocabulary of the claims
\* The request in `body` was answered after its outbound call returned a
\* response with a first choice.
Answered == outcome = "returned" /\ received.choices # <<>>
\* That first choice's message, as the upstream returned it.
UpstreamMessage == received.choices[1]

RECURSIVE Flatten(_)
Flatten(ss) == IF ss = <<>> THEN <<>> ELSE Head(ss) \o Flatten(Tail(ss))

\* The citations a document in a "content" string carries, if it parses to
\* a document with a list under "citations".
DocCitations(s) ==
    LET r == JsonLoads(s)
    IN  IF r.ok /\ r.val.t = "dict" /\ r.val.citations.t = "list"
        THEN r.val.citations.v ELSE <<>>

\* What one entry of context.messages is expected to contribute.
Contribution(msg) ==
    IF msg.citations # Absent THEN msg.citations.v
    ELSE IF msg.content.t = "str" THEN DocCitations(msg.content.v)
    ELSE <<>>
MsgCits(ms) == Flatten([i \in 1..Len(ms) |-> Contribution(ms[i])])
CallCits(tc) == Flatten([i \in 1..Len(tc.v) |-> tc.v[i].citations.v])

\* Shapes on which no statement of the extraction can raise outside the
\* inner try: containers where containers are read, lists where lists are
\* extended.
ListOrAbsent(x) == x.t \in {"absent", "list"}
WellFormedCalls(tc) ==
    \/ tc.t = "none"
    \/ /\ tc.t = "list"
       /\ \A i \in 1..Len(tc.v) : tc.v[i].t = "dict" /\ ListOrAbsent(tc.v[i].citations)
WellFormedMsgs(m) ==
    \/ m.t = "absent"
    \/ /\ m.t = "list"
       /\ \A i \in 1..Len(m.v) : m.v[i].t = "dict" /\ ListOrAbsent(m.v[i].citations)
WellFormed(message) ==
    /\ WellFormedCalls(message.tool_calls)
    /\ \/ message.context.t = "none"
       \/ /\ message.context.t = "dict"
          /\ ListOrAbsent(message.context.citations)
          /\ message.context.citations = Absent => WellFormedMsgs(message.context.messages)

\* An entry of context.messages without "citations" whose "content" is not
\* a well-formed document carrying a citations list.
BadContent(msg) ==
    /\ msg.t = "dict"
    /\ msg.citations = Absent
    /\ msg.content.t = "str"
    /\ LET r == JsonLoads(msg.content.v)
       IN  ~r.ok \/ r.val.t # "dict" \/ r.val.citations.t # "list"
WithoutBadContent(message) ==
    [message EXCEPT !.context.messages.v = SelectSeq(@, LAMBDA msg : ~BadContent(msg))]

\* --------------------------------------------------------------- the claims

\* C1: whenever the outbound call returns a response whose first choice has
\* a string content, whatever the context and tool_calls look like, the
\* reply is a 200 whose answer is that content.
C1_AnswerIsContent ==
    (Answered /\ UpstreamMessage.content.t = "str")
        => (reply.status = 200 /\ reply.answer = UpstreamMessage.content.v)

\* C2: when the outbound call raises, the reply is a 500 whose detail is
\* str() of the exception, it carries no answer, and the service is ready
\* for the next request.
C2_UpstreamFailureIs500 ==
    outcome = "raised"
        => /\ reply.status = 500
           /\ \/ last.exc.args = <<reply.detail>>
              \/ last.exc.args = <<>> /\ reply.detail = ""
           /\ reply.answer = "" /\ reply.citations = <<>>
           /\ pc = "idle"
           /\ ENABLED Accept
C2_Witness ==
    /\ outcome = "raised"
    /\ last.exc.type = "APITimeoutError"
    /\ reply.detail = "Request timed out."

\* C3: with a string content in the first choice, no shape of context or
\* tool_calls (citation values that are not lists included) keeps the reply
\* from being a 200, and when the extraction raised the reply's citations
\* are empty.
C3_ExtractionNeverSurfaces ==
    (Answered /\ UpstreamMessage.content.t = "str")
        => /\ reply.status = 200
           /\ last.raised => reply.citations = <<>>

\* C4 as claimed: with a context.citations list (on a well-formed message)
\* the result is context.citations, then the citations of the
\* context.messages entries, then those of tool_calls.
C4_AllThreeSources ==
    (Answered /\ WellFormed(UpstreamMessage)
       /\ UpstreamMessage.context.citations.t = "list"
       /\ UpstreamMessage.context.messages.t = "list"
       /\ WellFormedMsgs(UpstreamMessage.context.messages))
        => last.citations.v =
             UpstreamMessage.context.citations.v
               \o MsgCits(UpstreamMessage.context.messages.v)
               \o CallCits(UpstreamMessage.tool_calls)

\* C4 amended: with a context.citations list and well-formed tool_calls the
\* extraction does not raise and the result is context.citations followed
\* by the citations of tool_calls; context.messages adds nothing.
C4_ContextThenToolCalls ==
    (Answered /\ UpstreamMessage.context.citations.t = "list"
       /\ WellFormedCalls(UpstreamMessage.tool_calls))
        => /\ ~last.raised
           /\ last.citations.v =
                UpstreamMessage.context.citations.v
                  \o CallCits(UpstreamMessage.tool_calls)
C4_Witness ==
    /\ Answered
    /\ UpstreamMessage.context.citations = List(<<"c1">>)
    /\ UpstreamMessage.context.messages.t = "list"
    /\ MsgCits(UpstreamMessage.context.messages.v) # <<>>
    /\ CallCits(UpstreamMessage.tool_calls) = <<"c2", "c3">>
    /\ last.citations.v = <<"c1", "c2", "c3">>

\* C5: every run of the extraction on one and the same response object
\* returns the list the first run returned.
C5_Idempotent == runs >= 1 => last.citations = first

\* C6: an entry of context.messages without "citations" whose content is
\* not a document with citations contributes nothing and fails nothing: the
\* extraction ends as it does on the response without these entries, and on
\* well-formed messages the result is the other entries' citations in entry
\* order, followed by those of tool_calls.
C6_BadContentContributesNothing ==
    (Answered /\ last.walked)
        => /\ LET other == ExtractCitations(WithoutBadContent(UpstreamMessage))
              IN  /\ last.raised = other.raised
                  /\ last.citations = other.citations
           /\ WellFormed(UpstreamMessage)
                => /\ ~last.raised
                   /\ last.citations.v =
                        MsgCits(SelectSeq(UpstreamMessage.context.messages.v,
                                          LAMBDA msg : ~BadContent(msg)))
                          \o CallCits(UpstreamMessage.tool_calls)
C6_Witness ==
    /\ Answered
    /\ last.walked
    /\ Len(UpstreamMessage.context.messages.v) = 3
    /\ UpstreamMessage.context.messages.v[1] = MsgDict(List(<<"c1">>), NoStr)
    /\ UpstreamMessage.context.messages.v[2] = MsgDict(Absent, Str("not json"))
    /\ UpstreamMessage.context.messages.v[3] =
          MsgDict(Absent, Str("{\"citations\": [\"c2\", \"c3\"]}"))
    /\ last.citations.v = <<"c1", "c2", "c3">>
    /\ reply.status = 200

\* C7: a request without a "question" string is answered 422 with no
\* outbound call, and an outbound call is only ever issued for a request
\* that has one.
C7_MissingQuestionRejected ==
    /\ (outcome # "none" /\ body.question.t # "str")
          => /\ outcome = "rejected"
             /\ reply.status = 422
             /\ calls = 0
             /\ pc = "idle"
    /\ (calls > 0 \/ pc = "calling") => body.question.t = "str"
C7_Witness ==
    /\ outcome = "rejected"
    /\ body.question = NoStr
    /\ reply.status = 422
    /\ calls = 0

\* C8: an accepted request has exactly one outbound call, pending or
\* finished; once the call has returned or raised the request is answered
\* (200 or 500) and no further call follows.
C8_ExactlyOneCall ==
    /\ pc = "calling" => calls = 1
    /\ outcome \in {"returned", "raised"}
          => /\ calls = 1
             /\ pc = "idle"
             /\ reply.status \in {200, 500}
C8_Witness ==
    /\ outcome = "raised"
    /\ calls = 1
    /\ reply.status = 500
    /\ pc = "idle"

\* C9: context["messages"] is walked exactly when context is a dict
\* without "citations" that has "messages"; on a well-formed message the
\* result is context["citations"] if present, else what the messages
\* contribute, and in both cases the citations of tool_calls come after.
C9_Precedence ==
    Answered
        => /\ UpstreamMessage.context.citations # Absent => ~last.walked
           /\ last.walked
                => /\ UpstreamMessage.context.t = "dict"
                   /\ UpstreamMessage.context.citations = Absent
                   /\ UpstreamMessage.context.messages.t = "list"
           /\ WellFormed(UpstreamMessage)
                => last.citations.v =
                     (IF UpstreamMessage.context.citations # Absent
                      THEN UpstreamMessage.context.citations.v
                      ELSE IF UpstreamMessage.context.messages.t = "list"
                      THEN MsgCits(UpstreamMessage.context.messages.v)
                      ELSE <<>>)
                       \o CallCits(UpstreamMessage.tool_calls)
C9_Witness ==
    /\ Answered
    /\ UpstreamMessage.context.citations = List(<<>>)
    /\ UpstreamMessage.context.messages.t = "list"
    /\ MsgCits(UpstreamMessage.context.messages.v) = <<"c1">>
    /\ CallCits(UpstreamMessage.tool_calls) = <<"c2", "c3">>
    /\ ~last.walked
    /\ last.citations.v = <<"c2", "c3">>

\* C10: the extraction leaves the response object as the upstream returned
\* it.
C10_ResponseUnchanged == outcome = "returned" => last.response = received

====
